---- MODULE Spec2Model ----
(***************************************************************************)
(* Model of the console Tic-Tac-Toe program in main.go: the board queries, *)
(* the evaluator, the minimax search, the move selector and the game loop  *)
(* of main.                                                                *)
(*                                                                         *)
(* Spec   is the game loop of main: the human (X) enters any cell number,  *)
(*        the computer (O) answers with findBestMove.                      *)
(* SpecFn applies the functions of the program to boards drawn from a      *)
(*        bounded set and records what they return.                        *)
(***************************************************************************)
EXTENDS Integers, Sequences, FiniteSets, TLC

VARIABLES
    gameBoard,      \* main: gameBoard
    currentPlayer,  \* main: currentPlayer
    pc,             \* main: "loop" inside the for loop, "done" after it
    announce,       \* main: the outcome printed when the loop is left
    moveCount,      \* number of marks main has placed
    lastCall,       \* the board main passed to findBestMove last
    lastRet,        \* the move findBestMove returned to main last
    lastBranch,     \* the branch of findBestMove that produced lastRet
    fb,             \* SpecFn: the board a function is applied to
    fop,            \* SpecFn: the function applied last, "none" before
    farg,           \* SpecFn: its second argument (player or isMaximizing)
    fret,           \* SpecFn: what it returned
    fprev,          \* SpecFn: what the previous call on fb returned
    fcalls,         \* SpecFn: number of calls made on fb
    fwork,          \* SpecFn: the callee's local board at return
    fclean,         \* SpecFn: every undo inside the call restored the board
    fbranch         \* SpecFn: the branch findBestMove returned from

gameVars == <<gameBoard, currentPlayer, pc, announce, moveCount,
              lastCall, lastRet, lastBranch>>
fnVars == <<fb, fop, farg, fret, fprev, fcalls, fwork, fclean, fbranch>>
vars == <<gameVars, fnVars>>

playerX == "X"
playerO == "O"
emptyCell == " "

MinInt32 == -2147483647 - 1
MaxInt32 == 2147483647

\* largest number of empty cells of the boards SpecFn searches exhaustively
MaxEmpty == 3

Idx == 0..2
Cells == {playerX, playerO, emptyCell}
Boards == [Idx -> [Idx -> Cells]]

NoMove == <<-1, -1>>

Row(a, b, c) == (0 :> a @@ 1 :> b @@ 2 :> c)

initializeBoard ==
    Row(Row(emptyCell, emptyCell, emptyCell),
        Row(emptyCell, emptyCell, emptyCell),
        Row(emptyCell, emptyCell, emptyCell))

\* cells in the scan order of the nested i, j loops
RowMajor == [k \in 1..9 |-> <<(k - 1) \div 3, (k - 1) % 3>>]

getAvailableMoves(b) == SelectSeq(RowMajor, LAMBDA m : b[m[1]][m[2]] = emptyCell)

\* checkWin without its last test, the diagonal from (0,2) to (2,0)
checkWinNoAntiDiagonal(b, player) ==
    \/ \E i \in Idx : b[i][0] = player /\ b[i][1] = player /\ b[i][2] = player
    \/ \E j \in Idx : b[0][j] = player /\ b[1][j] = player /\ b[2][j] = player
    \/ b[0][0] = player /\ b[1][1] = player /\ b[2][2] = player

checkWin(b, player) ==
    \/ \E i \in Idx : b[i][0] = player /\ b[i][1] = player /\ b[i][2] = player
    \/ \E j \in Idx : b[0][j] = player /\ b[1][j] = player /\ b[2][j] = player
    \/ b[0][0] = player /\ b[1][1] = player /\ b[2][2] = player
    \/ b[0][2] = player /\ b[1][1] = player /\ b[2][0] = player

isBoardFull(b) == Len(getAvailableMoves(b)) = 0

\* evaluateBoard without its second test: a win of X scores 0
evaluateBoardIgnoresX(b) ==
    IF checkWin(b, playerO) THEN 10 ELSE 0

\* evaluateBoard with its two tests in the other order
evaluateBoardXFirst(b) ==
    IF checkWin(b, playerX) THEN -10
    ELSE IF checkWin(b, playerO) THEN 10
    ELSE 0

evaluateBoard(b) ==
    IF checkWin(b, playerO) THEN 10
    ELSE IF checkWin(b, playerX) THEN -10
    ELSE 0

\* an undo that writes the computer's mark instead of clearing the cell
undoMarkStale == playerO

\* the mark written by the "undo the move" assignment of the search loops
undoMark == emptyCell

\* the maximizing branch comparing the wrong way round
maxImprovesReversed(currentScore, bestScore) == currentScore < bestScore

\* the comparison that updates bestScore in the maximizing branch of minimax
maxImproves(currentScore, bestScore) == currentScore > bestScore

\* the minimizing branch comparing the wrong way round
minImprovesReversed(currentScore, bestScore) == currentScore > bestScore

\* the comparison that updates bestScore in the minimizing branch of minimax
minImproves(currentScore, bestScore) == currentScore < bestScore

RECURSIVE minimaxRun(_, _, _)
RECURSIVE maxLoop(_, _, _, _, _, _, _)
RECURSIVE minLoop(_, _, _, _, _, _, _)

\* the loop of the maximizing branch from its k-th move on: bestScore and the
\* local board b as the loop has them, clean = every undo so far left b equal
\* to the board b0 the call was entered with
maxLoop(b0, availableMoves, k, depth, bestScore, b, clean) ==
    IF k > Len(availableMoves)
    THEN [score |-> bestScore, b |-> b, clean |-> clean]
    ELSE LET r == availableMoves[k][1]
             c == availableMoves[k][2]
             made == [b EXCEPT ![r][c] = playerO]
             child == minimaxRun(made, depth + 1, FALSE)
             currentScore == child.score
             undone == [made EXCEPT ![r][c] = undoMark]
             ok == clean /\ child.clean /\ undone = b0
         IN IF maxImproves(currentScore, bestScore)
            THEN maxLoop(b0, availableMoves, k + 1, depth, currentScore, undone, ok)
            ELSE maxLoop(b0, availableMoves, k + 1, depth, bestScore, undone, ok)

minLoop(b0, availableMoves, k, depth, bestScore, b, clean) ==
    IF k > Len(availableMoves)
    THEN [score |-> bestScore, b |-> b, clean |-> clean]
    ELSE LET r == availableMoves[k][1]
             c == availableMoves[k][2]
             made == [b EXCEPT ![r][c] = playerX]
             child == minimaxRun(made, depth + 1, TRUE)
             currentScore == child.score
             undone == [made EXCEPT ![r][c] = undoMark]
             ok == clean /\ child.clean /\ undone = b0
         IN IF minImproves(currentScore, bestScore)
            THEN minLoop(b0, availableMoves, k + 1, depth, currentScore, undone, ok)
            ELSE minLoop(b0, availableMoves, k + 1, depth, bestScore, undone, ok)

\* one call of minimax on its own copy b of the board (Go passes the array by
\* value): the returned score, the local board at return and the clean flag
minimaxRun(b, depth, isMaximizing) ==
    LET score == evaluateBoard(b)
    IN IF score = 10 \/ score = -10 \/ isBoardFull(b)
       THEN [score |-> score, b |-> b, clean |-> TRUE]
       ELSE LET availableMoves == getAvailableMoves(b)
            IN IF isMaximizing
               THEN maxLoop(b, availableMoves, 1, depth, MinInt32, b, TRUE)
               ELSE minLoop(b, availableMoves, 1, depth, MaxInt32, b, TRUE)

minimax(b, depth, isMaximizing) == minimaxRun(b, depth, isMaximizing).score

\* rand.Intn(n): any of 0 .. n-1
Intn(n) == 0..(n - 1)

\* findBestMove starting from the sentinel of the minimizing branch
findBestMoveInitScoreMax == MaxInt32

\* the values findBestMove starts bestScore and bestMove with
findBestMoveInitScore == MinInt32
findBestMoveInitMove == NoMove

\* findBestMove replacing the best move on ties as well
moveImprovesOrEqual(moveScore, bestScore) == moveScore >= bestScore

\* findBestMove keeping the lower score
moveImprovesReversed(moveScore, bestScore) == moveScore < bestScore

\* the comparison that updates bestMove in findBestMove
moveImproves(moveScore, bestScore) == moveScore > bestScore

RECURSIVE findBestLoop(_, _, _, _, _, _, _)

\* the candidate loop of findBestMove from its k-th move on
findBestLoop(b0, availableMoves, k, bestScore, bestMove, b, clean) ==
    IF k > Len(availableMoves)
    THEN [bestMove |-> bestMove, b |-> b, clean |-> clean]
    ELSE LET move == availableMoves[k]
             r == move[1]
             c == move[2]
             made == [b EXCEPT ![r][c] = playerO]
             child == minimaxRun(made, 0, FALSE)
             moveScore == child.score
             undone == [made EXCEPT ![r][c] = undoMark]
             ok == clean /\ child.clean /\ undone = b0
         IN IF moveImproves(moveScore, bestScore)
            THEN findBestLoop(b0, availableMoves, k + 1, moveScore, move, undone, ok)
            ELSE findBestLoop(b0, availableMoves, k + 1, bestScore, bestMove, undone, ok)

\* every outcome one call of findBestMove can have: the move returned, the
\* branch it returned from, the local board at return and the clean flag
findBestMove(b) ==
    LET availableMoves == getAvailableMoves(b)
    IN IF Len(availableMoves) = 9
       THEN {[move |-> availableMoves[n + 1], branch |-> "random",
              b |-> b, clean |-> TRUE] : n \in Intn(Len(availableMoves))}
       ELSE LET res == findBestLoop(b, availableMoves, 1, findBestMoveInitScore,
                                    findBestMoveInitMove, b, TRUE)
            IN IF res.bestMove[1] = -1
               THEN IF Len(availableMoves) > 0
                    THEN {[move |-> availableMoves[n + 1], branch |-> "fallback",
                           b |-> res.b, clean |-> res.clean]
                            : n \in Intn(Len(availableMoves))}
                    ELSE {[move |-> NoMove, branch |-> "sentinel",
                           b |-> res.b, clean |-> res.clean]}
               ELSE {[move |-> res.bestMove, branch |-> "search",
                      b |-> res.b, clean |-> res.clean]}

----------------------------------------------------------------------------
(* The game loop of main *)

\* main giving the first turn to the computer
firstPlayerO == playerO

\* the player main gives the first turn to
firstPlayer == playerX

\* what a line typed by the human can parse to: 0 and 10 stand for every
\* input getPlayerMove rejects as out of range
Inputs == 0..10

\* the end of an iteration without the checkWin test: a completed line does
\* not end the game
EndOfTurnNoWinCheck(nb) ==
    IF isBoardFull(nb)
    THEN /\ announce' = "draw"
         /\ pc' = "done"
         /\ UNCHANGED currentPlayer
    ELSE /\ currentPlayer' = (IF currentPlayer = playerX THEN playerO ELSE playerX)
         /\ UNCHANGED <<announce, pc>>

\* the end of an iteration without the isBoardFull test: a full board does
\* not end the game
EndOfTurnNoFullCheck(nb) ==
    IF checkWin(nb, currentPlayer)
    THEN /\ announce' = (IF currentPlayer = playerX THEN "xwin" ELSE "owin")
         /\ pc' = "done"
         /\ UNCHANGED currentPlayer
    ELSE /\ currentPlayer' = (IF currentPlayer = playerX THEN playerO ELSE playerX)
         /\ UNCHANGED <<announce, pc>>

\* the end-of-iteration part of the loop body of main, after the mark of
\* currentPlayer was placed and the board became nb
EndOfTurn(nb) ==
    IF checkWin(nb, currentPlayer)
    THEN /\ announce' = (IF currentPlayer = playerX THEN "xwin" ELSE "owin")
         /\ pc' = "done"
         /\ UNCHANGED currentPlayer
    ELSE IF isBoardFull(nb)
    THEN /\ announce' = "draw"
         /\ pc' = "done"
         /\ UNCHANGED currentPlayer
    ELSE /\ currentPlayer' = (IF currentPlayer = playerX THEN playerO ELSE playerX)
         /\ UNCHANGED <<announce, pc>>

\* getPlayerMove without its "Cell already taken" test
getPlayerMoveAnyCell(b) ==
    {<<(moveNum - 1) \div 3, (moveNum - 1) % 3>> :
        moveNum \in {n \in Inputs : ~(n < 1 \/ n > 9)}}

\* the cells getPlayerMove can return on board b: it re-prompts until the
\* line parses to a number 1..9 whose cell is empty
getPlayerMove(b) ==
    {<<(moveNum - 1) \div 3, (moveNum - 1) % 3>> :
        moveNum \in {n \in Inputs :
                        /\ ~(n < 1 \/ n > 9)
                        /\ ~(b[(n - 1) \div 3][(n - 1) % 3] # emptyCell)}}

\* one iteration of the loop on the human's turn
HumanTurn ==
    /\ pc = "loop"
    /\ currentPlayer = playerX
    /\ \E move \in getPlayerMove(gameBoard) :
          /\ gameBoard' = [gameBoard EXCEPT ![move[1]][move[2]] = playerX]
          /\ moveCount' = moveCount + 1
          /\ EndOfTurn(gameBoard')
    /\ UNCHANGED <<lastCall, lastRet, lastBranch>>
    /\ UNCHANGED fnVars

\* one iteration of the loop on the computer's turn
ComputerTurn ==
    /\ pc = "loop"
    /\ currentPlayer = playerO
    /\ \E res \in findBestMove(gameBoard) :
          /\ lastCall' = gameBoard
          /\ lastRet' = res.move
          /\ lastBranch' = res.branch
          /\ IF res.move[1] = -1
             THEN /\ announce' = "error"
                  /\ pc' = "done"
                  /\ UNCHANGED <<gameBoard, currentPlayer, moveCount>>
             ELSE /\ gameBoard' = [gameBoard EXCEPT ![res.move[1]][res.move[2]] = playerO]
                  /\ moveCount' = moveCount + 1
                  /\ EndOfTurn(gameBoard')
    /\ UNCHANGED fnVars

GameStart ==
    /\ gameBoard = initializeBoard
    /\ currentPlayer = firstPlayer
    /\ pc = "loop"
    /\ announce = "none"
    /\ moveCount = 0
    /\ lastCall = initializeBoard
    /\ lastRet = NoMove
    /\ lastBranch = "none"

FnIdle ==
    /\ fb = initializeBoard
    /\ fop = "none"
    /\ farg = "none"
    /\ fret = "none"
    /\ fprev = "none"
    /\ fcalls = 0
    /\ fwork = initializeBoard
    /\ fclean = TRUE
    /\ fbranch = "none"

Init == GameStart /\ FnIdle

Next == HumanTurn \/ ComputerTurn

Spec == Init /\ [][Next]_vars

\* weak fairness of the loop, WF_vars(Next): the human eventually types a
\* valid move on each of its turns and the search of the computer, which is
\* synchronous, returns.  ENABLED <<Next>>_vars is written as the state
\* predicate pc = "loop" it equals in every reachable state (LoopNeverStuck).
LoopFairness == (<>[](pc = "loop")) => []<><<Next>>_vars

SpecLive == Init /\ [][Next]_vars /\ LoopFairness

----------------------------------------------------------------------------
(* The functions applied to boards *)

NumEmpty(b) == Len(getAvailableMoves(b))

\* b with mark written to the cell move
Place(b, move, mark) == [b EXCEPT ![move[1]][move[2]] = mark]

\* [X,O,X / O,X,O / _,_,_]
BoardTwoThreats ==
    Row(Row(playerX, playerO, playerX),
        Row(playerO, playerX, playerO),
        Row(emptyCell, emptyCell, emptyCell))

\* [X,_,_ / X,_,_ / _,O,_]
BoardColumnThreat ==
    Row(Row(playerX, emptyCell, emptyCell),
        Row(playerX, emptyCell, emptyCell),
        Row(emptyCell, playerO, emptyCell))

\* [O,O,_ / X,X,_ / _,_,_]
BoardRowWin ==
    Row(Row(playerO, playerO, emptyCell),
        Row(playerX, playerX, emptyCell),
        Row(emptyCell, emptyCell, emptyCell))

\* [_,_,_ / _,X,_ / _,_,_]
BoardCentreX == Place(initializeBoard, <<1, 1>>, playerX)

\* the calls SpecFn makes on boards with more than MaxEmpty empty cells
\* the empty board with O placed in one cell, for each of the 9 cells: the
\* boards the random-opener branch of findBestMove can lead to
OpeningBoards == {Place(initializeBoard, RowMajor[k], playerO) : k \in 1..9}

MinimaxScenarios ==
    {<<TRUE, initializeBoard>>} \cup {<<FALSE, b>> : b \in OpeningBoards}
FindBestMoveScenarios ==
    {initializeBoard, BoardCentreX, BoardColumnThreat, BoardRowWin, BoardTwoThreats}

InitFn ==
    /\ GameStart
    /\ fb \in Boards
    /\ fop = "none"
    /\ farg = "none"
    /\ fret = "none"
    /\ fprev = "none"
    /\ fcalls = 0
    /\ fwork = fb
    /\ fclean = TRUE
    /\ fbranch = "none"

CallCheckWin ==
    /\ fop = "none"
    /\ \E player \in {playerX, playerO} :
          /\ farg' = player
          /\ fret' = checkWin(fb, player)
    /\ fop' = "checkWin"
    /\ fcalls' = 1
    /\ UNCHANGED <<fb, fprev, fwork, fclean, fbranch>>
    /\ UNCHANGED gameVars

CallIsBoardFull ==
    /\ fop = "none"
    /\ fop' = "isBoardFull"
    /\ fret' = isBoardFull(fb)
    /\ fcalls' = 1
    /\ UNCHANGED <<fb, farg, fprev, fwork, fclean, fbranch>>
    /\ UNCHANGED gameVars

CallEvaluateBoard ==
    /\ fop = "none"
    /\ fop' = "evaluateBoard"
    /\ fret' = evaluateBoard(fb)
    /\ fcalls' = 1
    /\ UNCHANGED <<fb, farg, fprev, fwork, fclean, fbranch>>
    /\ UNCHANGED gameVars

CallMinimax ==
    /\ fop = "none"
    /\ \E isMaximizing \in BOOLEAN :
          /\ NumEmpty(fb) <= MaxEmpty \/ <<isMaximizing, fb>> \in MinimaxScenarios
          /\ \E res \in {minimaxRun(fb, 0, isMaximizing)} :
                /\ farg' = isMaximizing
                /\ fret' = res.score
                /\ fwork' = res.b
                /\ fclean' = res.clean
    /\ fop' = "minimax"
    /\ fcalls' = 1
    /\ UNCHANGED <<fb, fprev, fbranch>>
    /\ UNCHANGED gameVars

\* findBestMove is called on the same board up to twice
CallFindBestMove ==
    /\ fop \in {"none", "findBestMove"}
    /\ fcalls < 2
    /\ NumEmpty(fb) <= MaxEmpty \/ fb \in FindBestMoveScenarios
    /\ \E res \in findBestMove(fb) :
          /\ fret' = res.move
          /\ fbranch' = res.branch
          /\ fwork' = res.b
          /\ fclean' = res.clean
    /\ fprev' = fret
    /\ fop' = "findBestMove"
    /\ fcalls' = fcalls + 1
    /\ UNCHANGED <<fb, farg>>
    /\ UNCHANGED gameVars

NextFn ==
    \/ CallCheckWin
    \/ CallIsBoardFull
    \/ CallEvaluateBoard
    \/ CallMinimax
    \/ CallFindBestMove

SpecFn == InitFn /\ [][NextFn]_vars

----------------------------------------------------------------------------
(* Properties *)

CountMark(b, mark) == Cardinality({k \in 1..9 : b[RowMajor[k][1]][RowMajor[k][2]] = mark})

\* findBestMove was the function applied last, and it was applied to b
FoundOn(b) == fop = "findBestMove" /\ fb = b

\* C1: in a game driven by main (X first, any empty cell; O plays the cell
\* findBestMove returns) no reachable board has a completed line of X.
C1_HumanNeverWins == ~checkWin(gameBoard, playerX) /\ announce # "xwin"

\* a game played to a full board and a draw
C1_Witness == pc = "done" /\ announce = "draw" /\ moveCount = 9

\* C2: on a board with 1 to 8 empty cells findBestMove returns the first empty
\* cell in row-major order whose score minimax(board with O there, false) is
\* the maximum over the empty cells, and a second call on the same board
\* returns the same move.
C2_FirstMaximalMove ==
    (fop = "findBestMove" /\ NumEmpty(fb) \in 1..8) =>
        LET avail == getAvailableMoves(fb)
            scored == {<<k, minimax(Place(fb, avail[k], playerO), 0, FALSE)>>
                         : k \in 1..Len(avail)}
            best == CHOOSE v \in {p[2] : p \in scored} :
                        \A p \in scored : p[2] <= v
            first == CHOOSE k \in 1..Len(avail) :
                        /\ <<k, best>> \in scored
                        /\ \A j \in 1..(k - 1) : <<j, best>> \notin scored
        IN /\ fret = avail[first]
           /\ fcalls = 2 => fret = fprev

\* a second call on a board where a later cell ties with the cell returned
C2_Witness ==
    /\ fop = "findBestMove"
    /\ fcalls = 2
    /\ NumEmpty(fb) \in 2..8
    /\ fret = fprev
    /\ \E k \in 1..9 :
          /\ fb[RowMajor[k][1]][RowMajor[k][2]] = emptyCell
          /\ RowMajor[k] # fret
          /\ minimax(Place(fb, RowMajor[k], playerO), 0, FALSE)
               = minimax(Place(fb, fret, playerO), 0, FALSE)

\* C3: minimax on the empty board with isMaximizing = true returns 0.
C3_EmptyBoardIsDraw ==
    (fop = "minimax" /\ fb = initializeBoard /\ farg = TRUE) => fret = 0

C3_Witness == fop = "minimax" /\ fb = initializeBoard /\ farg = TRUE /\ fret = 0

\* C4 as stated: on every board evaluateBoard returns one of -10, 0, 10, it
\* returns 10 iff checkWin(board, O) and -10 iff checkWin(board, X).
C4_Original ==
    fop = "evaluateBoard" =>
        /\ fret \in {-10, 0, 10}
        /\ fret = 10 <=> checkWin(fb, playerO)
        /\ fret = -10 <=> checkWin(fb, playerX)

\* C4 amended: on every board evaluateBoard returns one of -10, 0, 10, it
\* returns 10 iff checkWin(board, O) and -10 iff checkWin(board, X) holds
\* and checkWin(board, O) does not.
C4_EvaluateBoard ==
    fop = "evaluateBoard" =>
        /\ fret \in {-10, 0, 10}
        /\ fret = 10 <=> checkWin(fb, playerO)
        /\ fret = -10 <=> (checkWin(fb, playerX) /\ ~checkWin(fb, playerO))

\* evaluateBoard applied to a board with a line of X and a line of O
C4_Witness ==
    /\ fop = "evaluateBoard"
    /\ checkWin(fb, playerX)
    /\ checkWin(fb, playerO)
    /\ fret = 10

\* C5: minimax and findBestMove leave the board as they found it: the board
\* the caller passed is unchanged, the callee's board at return equals the
\* board at entry, and so does the working board after every
\* place / recurse / undo step of the search.
C5_SearchRestoresBoard ==
    fop \in {"minimax", "findBestMove"} => (fwork = fb /\ fclean)

\* a search that went at least two plies deep
C5_Witness ==
    /\ fop = "minimax"
    /\ NumEmpty(fb) >= 3
    /\ evaluateBoard(fb) = 0
    /\ fwork = fb
    /\ fclean

\* some empty cell of b completes a line of mark
CanComplete(b, mark) ==
    \E k \in 1..9 :
        /\ b[RowMajor[k][1]][RowMajor[k][2]] = emptyCell
        /\ checkWin(Place(b, RowMajor[k], mark), mark)

\* C6 as stated: on [X,O,X / O,X,O / _,_,_] findBestMove returns a cell that
\* blocks the human threat, the move leads to a drawn or won outcome under
\* exhaustive search, and afterwards no cell completes a line of X.
C6_Original ==
    FoundOn(BoardTwoThreats) =>
        /\ checkWin(Place(fb, fret, playerX), playerX)
        /\ minimax(Place(fb, fret, playerO), 0, FALSE) >= 0
        /\ ~CanComplete(Place(fb, fret, playerO), playerX)

\* C6 amended: on [X,O,X / O,X,O / _,_,_] the human threatens both (2,0) and
\* (2,2); findBestMove returns (2,0), the first empty cell, which blocks one
\* of the two threats; every move of the computer scores -10 under
\* exhaustive search, and after the move returned the human completes a
\* line of X at (2,2).
C6_TwoThreats ==
    FoundOn(BoardTwoThreats) =>
        /\ fret = <<2, 0>>
        /\ checkWin(Place(fb, <<2, 0>>, playerX), playerX)
        /\ checkWin(Place(fb, <<2, 2>>, playerX), playerX)
        /\ \A k \in 1..Len(getAvailableMoves(fb)) :
              minimax(Place(fb, getAvailableMoves(fb)[k], playerO), 0, FALSE) = -10
        /\ checkWin(Place(Place(fb, fret, playerO), <<2, 2>>, playerX), playerX)

C6_Witness == FoundOn(BoardTwoThreats) /\ fret = <<2, 0>> /\ fbranch = "search"

\* C7: on [X,_,_ / X,_,_ / _,O,_] findBestMove returns (2,0).
C7_BlocksColumn == FoundOn(BoardColumnThreat) => fret = <<2, 0>>

C7_Witness == FoundOn(BoardColumnThreat) /\ fret = <<2, 0>> /\ fbranch = "search"

\* C8: on [O,O,_ / X,X,_ / _,_,_] findBestMove returns (0,2).
C8_CompletesRow == FoundOn(BoardRowWin) => fret = <<0, 2>>

C8_Witness == FoundOn(BoardRowWin) /\ fret = <<0, 2>> /\ fbranch = "search"

\* C9: findBestMove returns (-1,-1) iff the board has no empty cell; on a
\* board with an empty cell it returns an empty cell of that board, and on a
\* board with 1 to 8 empty cells it never returns from the fallback branch.
C9_SentinelOnlyWhenFull ==
    fop = "findBestMove" =>
        /\ fret = NoMove <=> NumEmpty(fb) = 0
        /\ NumEmpty(fb) >= 1 =>
              /\ fret[1] \in Idx
              /\ fret[2] \in Idx
              /\ fb[fret[1]][fret[2]] = emptyCell
        /\ NumEmpty(fb) \in 1..8 => fbranch = "search"

\* findBestMove called on a full board
C9_Witness ==
    /\ fop = "findBestMove"
    /\ NumEmpty(fb) = 0
    /\ fret = NoMove
    /\ fbranch = "sentinel"

\* C10 as stated: the computer's first move of a game driven by main is made
\* on the empty board and comes from the random-opener branch.
C10_Original ==
    CountMark(gameBoard, playerO) = 1 =>
        (lastCall = initializeBoard /\ lastBranch = "random")

\* C10 amended: the human moves first, so the computer's first move of a game
\* driven by main is made on a board holding one X (8 available moves); it
\* is selected by the minimax search, and no call of findBestMove in the
\* game takes the random-opener branch.
C10_FirstMoveSearched ==
    /\ lastBranch # "random"
    /\ CountMark(gameBoard, playerO) = 1 =>
          /\ NumEmpty(lastCall) = 8
          /\ CountMark(lastCall, playerX) = 1
          /\ lastBranch = "search"

\* the board right after the computer's first move
C10_Witness ==
    /\ CountMark(gameBoard, playerO) = 1
    /\ moveCount = 2
    /\ lastBranch = "search"
    /\ NumEmpty(lastCall) = 8

\* the 8 lines of the board, each as its three cells
Lines ==
    {{<<0, 0>>, <<0, 1>>, <<0, 2>>}, {<<1, 0>>, <<1, 1>>, <<1, 2>>},
     {<<2, 0>>, <<2, 1>>, <<2, 2>>}, {<<0, 0>>, <<1, 0>>, <<2, 0>>},
     {<<0, 1>>, <<1, 1>>, <<2, 1>>}, {<<0, 2>>, <<1, 2>>, <<2, 2>>},
     {<<0, 0>>, <<1, 1>>, <<2, 2>>}, {<<0, 2>>, <<1, 1>>, <<2, 0>>}}

\* the lines of b that consist entirely of mark
FullLines(b, mark) == {l \in Lines : \A cell \in l : b[cell[1]][cell[2]] = mark}

\* C11: for every board and each mark in {X, O}, checkWin(board, mark) is
\* true iff at least one of the 8 lines consists entirely of that mark.
C11_CheckWinAllLines ==
    fop = "checkWin" => (fret <=> FullLines(fb, farg) # {})

\* checkWin answering true on a board whose only full line is the diagonal
\* from (0,2) to (2,0)
C11_Witness ==
    /\ fop = "checkWin"
    /\ fret = TRUE
    /\ FullLines(fb, farg) = {{<<0, 2>>, <<1, 1>>, <<2, 0>>}}

\* C17: for every board and both values of isMaximizing minimax returns a
\* value in {-10, 0, 10}; the sentinels MinInt32 and MaxInt32 are never
\* returned.
C17_ScoreRange ==
    fop = "minimax" =>
        /\ fret \in {-10, 0, 10}
        /\ fret # MinInt32
        /\ fret # MaxInt32

\* a maximizing node that is not terminal and all of whose children lose
C17_Witness ==
    /\ fop = "minimax"
    /\ farg = TRUE
    /\ evaluateBoard(fb) = 0
    /\ NumEmpty(fb) >= 2
    /\ fret = -10

\* C18: for each of the 9 cells, minimax with isMaximizing = false on the
\* empty board with O placed in that cell returns 0.
C18_EveryOpeningDraws ==
    (fop = "minimax" /\ farg = FALSE /\ fb \in OpeningBoards) => fret = 0

\* the opening in an edge cell searched to a draw
C18_Witness ==
    /\ fop = "minimax"
    /\ farg = FALSE
    /\ fb = Place(initializeBoard, <<0, 1>>, playerO)
    /\ fret = 0

\* the cells of the board
AllCells == {RowMajor[k] : k \in 1..9}

\* a step of the game keeps every mark, and a move writes one mark to one
\* cell that was empty
MarksKept ==
    /\ \A cell \in AllCells :
          (gameBoard[cell[1]][cell[2]] # emptyCell) =>
              (gameBoard'[cell[1]][cell[2]] = gameBoard[cell[1]][cell[2]])
    /\ (moveCount' = moveCount + 1) =>
          (\E cell \in AllCells :
              /\ gameBoard[cell[1]][cell[2]] = emptyCell
              /\ gameBoard'[cell[1]][cell[2]] # emptyCell
              /\ \A other \in AllCells \ {cell} :
                    gameBoard'[other[1]][other[2]] = gameBoard[other[1]][other[2]])

MarksCounted ==
    /\ CountMark(gameBoard, playerX) + CountMark(gameBoard, playerO) = moveCount
    /\ NumEmpty(gameBoard) + CountMark(gameBoard, playerX)
         + CountMark(gameBoard, playerO) = 9
    /\ CountMark(gameBoard, playerX) - CountMark(gameBoard, playerO) \in {0, 1}

\* C12: in every reachable state of a game driven by main the number of
\* non-empty cells equals the number of moves played, empty + X + O cells
\* = 9 and the count of X minus the count of O is 0 or 1; every move is
\* placed on a cell that was empty and no mark is overwritten or removed.
C12_MarksOnlyAdded == []MarksCounted /\ [][MarksKept]_vars

\* a game played to the last cell: five X and four O
C12_Witness ==
    /\ moveCount = 9
    /\ CountMark(gameBoard, playerX) = 5
    /\ CountMark(gameBoard, playerO) = 4
    /\ NumEmpty(gameBoard) = 0

BothWin(b) == checkWin(b, playerX) /\ checkWin(b, playerO)

RECURSIVE minimaxVisitsBothWin(_, _)

\* some node of the call tree of minimax(b, _, isMaximizing), b included, is
\* a board with a line of X and a line of O: the nodes are b and, unless b is
\* terminal, the nodes of the calls made on b with one more mark
minimaxVisitsBothWin(b, isMaximizing) ==
    \/ BothWin(b)
    \/ /\ ~(evaluateBoard(b) = 10 \/ evaluateBoard(b) = -10 \/ isBoardFull(b))
       /\ \E k \in 1..Len(getAvailableMoves(b)) :
             minimaxVisitsBothWin(
                 Place(b, getAvailableMoves(b)[k],
                       IF isMaximizing THEN playerO ELSE playerX),
                 ~isMaximizing)

\* some board findBestMove(b) calls minimax on leads to a both-win node
findBestMoveVisitsBothWin(b) ==
    /\ Len(getAvailableMoves(b)) # 9
    /\ \E k \in 1..Len(getAvailableMoves(b)) :
          minimaxVisitsBothWin(Place(b, getAvailableMoves(b)[k], playerO), FALSE)

\* C13: no board reachable in a game driven by main, and no node of the
\* search findBestMove runs from such a board on the computer's turn, has a
\* completed line of X and a completed line of O.
C13_NeverBothWin ==
    /\ ~BothWin(gameBoard)
    /\ (pc = "loop" /\ currentPlayer = playerO) =>
          ~findBestMoveVisitsBothWin(gameBoard)

\* the computer to move on a board where either side is one move from a line
C13_Witness ==
    /\ pc = "loop"
    /\ currentPlayer = playerO
    /\ CanComplete(gameBoard, playerO)
    /\ CanComplete(gameBoard, playerX)
    /\ ~findBestMoveVisitsBothWin(gameBoard)

\* the board is terminal: a mark has a completed line or no cell is empty
Terminal(b) == checkWin(b, playerX) \/ checkWin(b, playerO) \/ NumEmpty(b) = 0

\* C14: once the game board is terminal the loop makes no further move: the
\* board is never mutated again and neither findBestMove nor getPlayerMove
\* is invoked again.
C14_NoMoveAfterTerminal ==
    [][Terminal(gameBoard) => (UNCHANGED gameVars /\ ~HumanTurn /\ ~ComputerTurn)]_vars

\* the loop left on a board where O completed a line with cells still empty
C14_Witness ==
    /\ pc = "done"
    /\ checkWin(gameBoard, playerO)
    /\ NumEmpty(gameBoard) > 0

\* C16: in a game driven by main findBestMove is invoked only on boards with
\* an empty cell and no completed line; it never returns (-1,-1) to main and
\* the "Computer couldn't determine a move" exit is not taken.
C16_SelectorPrecondition ==
    /\ announce # "error"
    /\ lastBranch # "none" =>
          /\ NumEmpty(lastCall) >= 1
          /\ ~checkWin(lastCall, playerX)
          /\ ~checkWin(lastCall, playerO)
          /\ lastRet # NoMove
          /\ lastBranch # "sentinel"

\* findBestMove called by main for the computer's last move, two cells left
C16_Witness ==
    /\ lastBranch = "search"
    /\ NumEmpty(lastCall) = 2
    /\ lastRet # NoMove
    /\ moveCount >= 8

\* C20: "You (X) win" is announced only when X has a completed line,
\* "Computer (O) wins" only when O has one, "It's a draw" only when the
\* board is full and neither has one; exactly one of the three is announced
\* per game: one when the loop is left, none before, and never a second.
C20_AnnouncementMatchesBoard ==
    /\ [](/\ announce = "xwin" => checkWin(gameBoard, playerX)
          /\ announce = "owin" => checkWin(gameBoard, playerO)
          /\ announce = "draw" => (/\ NumEmpty(gameBoard) = 0
                                   /\ ~checkWin(gameBoard, playerX)
                                   /\ ~checkWin(gameBoard, playerO))
          /\ pc = "done" => announce \in {"xwin", "owin", "draw"}
          /\ pc = "loop" => announce = "none")
    /\ [][announce = "none" /\ announce' \in {"xwin", "owin", "draw"}]_announce

\* the computer announced as the winner
C20_Witness ==
    /\ pc = "done"
    /\ announce = "owin"
    /\ checkWin(gameBoard, playerO)
    /\ ~checkWin(gameBoard, playerX)

\* inside the loop the player to move always has a move: getPlayerMove has a
\* valid input to accept, findBestMove returns
LoopNeverStuck ==
    pc = "loop" =>
        IF currentPlayer = playerX
        THEN getPlayerMove(gameBoard) # {}
        ELSE findBestMove(gameBoard) # {}

\* C15: every game driven by main terminates when the human eventually
\* supplies a valid move on each of its turns: the loop is left after at
\* most 9 moves, on a board with a completed line or with no empty cell.
C15_GameTerminates ==
    /\ <>(pc = "done")
    /\ [](moveCount <= 9)
    /\ [](pc = "done" => Terminal(gameBoard))
    /\ []LoopNeverStuck

\* the loop left after the ninth move
C15_Witness == pc = "done" /\ moveCount = 9 /\ Terminal(gameBoard)

\* C19 as stated: whenever main calls findBestMove on a board where some
\* empty cell completes a line of O, the cell returned completes a line of O.
C19_Original ==
    (lastBranch # "none" /\ CanComplete(lastCall, playerO)) =>
        checkWin(Place(lastCall, lastRet, playerO), playerO)

\* the score findBestMove gives to the cell with index k of availableMoves
ScoreOfMove(b, k) == minimax(Place(b, getAvailableMoves(b)[k], playerO), 0, FALSE)

\* C19 amended: whenever main calls findBestMove on a board where some empty
\* cell completes a line of O, the cell returned is the first empty cell in
\* row-major order whose exhaustive-search score is 10, a forced win for the
\* computer; it need not complete a line of O on that move.
C19_FirstForcedWin ==
    (lastBranch # "none" /\ CanComplete(lastCall, playerO)) =>
        \E k \in 1..Len(getAvailableMoves(lastCall)) :
            /\ getAvailableMoves(lastCall)[k] = lastRet
            /\ ScoreOfMove(lastCall, k) = 10
            /\ \A j \in 1..(k - 1) : ScoreOfMove(lastCall, j) # 10

\* [X,X,O / _,O,_ / _,X,_]: (2,0) completes a line of O, (1,0) is returned
C19_Witness ==
    /\ lastCall = Row(Row(playerX, playerX, playerO),
                      Row(emptyCell, playerO, emptyCell),
                      Row(emptyCell, playerX, emptyCell))
    /\ lastBranch = "search"
    /\ lastRet = <<1, 0>>
    /\ checkWin(Place(lastCall, <<2, 0>>, playerO), playerO)
    /\ ~checkWin(Place(lastCall, lastRet, playerO), playerO)

====
